---------------------------- MODULE Spec2Model ----------------------------
(***************************************************************************)
(* Model of renku-notebooks' image registry client                         *)
(* (renku_notebooks/api/classes/image.py, class ImageRepoDockerAPI) and of *)
(* the image-availability endpoint that drives it                          *)
(* (renku_notebooks/api/notebooks.py, check_docker_image), and of the      *)
(* image reference parser Image.from_path of the same file, which has a    *)
(* specification of its own, SpecParse.                                    *)
(*                                                                         *)
(* Every HTTP round trip of a call is one action: the action sends the     *)
(* request the code builds, draws the registry's answer from the sets      *)
(* below and runs the code up to the next request (or to the return /      *)
(* raise).  reqs is the log of the requests of the current call, each with *)
(* the answer it got.                                                      *)
(***************************************************************************)
EXTENDS Naturals, Sequences, FiniteSets

VARIABLES
    pc,         \* position of the running call
    op,         \* "image_exists" | "image_workdir" : the method that was called
    caller,     \* "direct" | "check_docker_image"
    heap,       \* the ImageRepoDockerAPI instances of the call, in order of creation,
                \* each [hostname, oauth2_token]
    this,       \* index in heap of self, the instance the method runs on
    image,      \* the Image argument : [hostname, name, tag]
    reqs,       \* requests sent so far in this call, with their responses
    challenge,  \* params of the parsed Www-Authenticate header (after pop("realm")) and the realm
    token,      \* local variable token of get_image_manifest / get_image_config
    result,     \* value returned by the call ("unset" while running or after a raise)
    workdir,    \* str() of the Path image_workdir returned (result = "Path"), else <<>>
    exc,        \* exception that left the call ("none" if none)
    http,       \* status returned by check_docker_image (0 : no response produced)
    path,       \* the argument of Image.from_path, a sequence of characters
    parsed,     \* outcome of Image.from_path(path)
    user,       \* the authenticated user of the endpoint that runs : [git_token]
    launch,     \* the running launch_notebook request (a record, see NoLaunch)
    patch,      \* the running patch_server request and the cluster (a record, see NoPatch)
    sidecar     \* the running autosave call and its repository (a record, see NoAutosave)

vars == <<pc, op, caller, heap, this, image, reqs, challenge, token, result, workdir, exc, http,
          path, parsed, user, launch, patch, sidecar>>

\* self
api == heap[this]

\* the variables of the registry client, of the parser, and of each endpoint
registryVars ==
    <<pc, op, caller, heap, this, image, reqs, challenge, token, result, workdir, exc, http, user>>
parserVars == <<path, parsed>>

---------------------------------------------------------------------------
(* Bounds *)

\* number of distinct bearer tokens the token service may hand out
MaxTokens == 2
\* number of distinct realm URLs a challenge may name
MaxRealms == 2
\* image references up to this length are enumerated exhaustively
MaxPathLen == 4
\* the largest number of commits a repository is ahead of or behind its remote
MaxAhead == 1

---------------------------------------------------------------------------
(* Program constants and input domains *)

docker_v2 == "application/vnd.docker.distribution.manifest.v2+json"
oci_v1 == "application/vnd.oci.image.manifest.v1+json"

\* config.git.registry, the platform registry
GitRegistry == "registry.renku.io"
Hosts == {GitRegistry, "registry-1.docker.io"}

\* Python None for the optional strings of the code
None == "None"
\* user.git_token / ImageRepoDockerAPI.oauth2_token : absent or a secret
GitTokens == {None, "glpat-secret"}

\* token is 0 for Python None (or any falsy value), 1..MaxTokens otherwise
NoToken == 0
Tokens == 1..MaxTokens
Realms == 1..MaxRealms

Images == {[hostname |-> h, name |-> "user/project", tag |-> "0.0.1"] : h \in Hosts}

\* requests exceptions raised by requests.get on a network-level failure:
\* ConnectionError is the one line 35 catches, ChunkedEncodingError is a
\* RequestException that is not a ConnectionError
NetFailures == {"ConnectionError", "ChunkedEncodingError"}

\* parameters a Www-Authenticate header may carry besides realm
ExtraParams == {{}, {"service", "scope"}}

\* Www-Authenticate header of a probe response: absent, or its parameters
\* (realm = 0 : no realm parameter)
NoHeader == [present |-> FALSE, realm |-> 0, params |-> {}]
WwwAuthenticate ==
    {NoHeader} \cup
    {[present |-> TRUE, realm |-> r, params |-> p] : r \in {0} \cup Realms, p \in ExtraParams}

\* bodies.  The code reads the body of a token response whatever its status,
\* and the body of a manifest or blob response only when the status is 200;
\* a body the code does not read is the registry's error document "errors"
\* (a JSON object with none of the fields the code looks up).
\*   malformed : not JSON, .json() raises          null : the JSON value null
\*   token     : object with a "token" field       manifest : object with config.digest
\*   nodigest  : object without config.digest      noconfig : object without "config"
\*   confignull: {"config": null}                  noworkdir: config without WorkingDir
\*   workdir   : config with a WorkingDir string (field workdir, a sequence of characters)
Body(k) == [kind |-> k, token |-> 0, workdir |-> <<>>]
TokenBodies ==
    {Body("malformed"), Body("errors")} \cup
    {[kind |-> "token", token |-> t, workdir |-> <<>>] : t \in Tokens}
ManifestBodies == {Body(k) : k \in {"malformed", "null", "nodigest", "manifest"}}
\* WorkingDir values an image config may carry: "", "/", "/a", "/a/", "a"
WorkingDirs == {<<>>, <<"/">>, <<"/", "a">>, <<"/", "a", "/">>, <<"a">>}
BlobBodies ==
    {Body(k) : k \in {"malformed", "null", "noconfig", "confignull", "noworkdir"}} \cup
    {[kind |-> "workdir", token |-> 0, workdir |-> w] : w \in WorkingDirs}

NetFailure(e) == [net |-> e, status |-> 0, www |-> NoHeader, body |-> Body("errors")]
Response(s, w, b) == [net |-> "none", status |-> s, www |-> w, body |-> b]

ProbeResponses ==
    {NetFailure(e) : e \in NetFailures} \cup
    {Response(s, w, Body("errors")) : s \in {200, 401}, w \in WwwAuthenticate}
TokenResponses ==
    {NetFailure(e) : e \in NetFailures} \cup
    {Response(s, NoHeader, b) : s \in {200, 403}, b \in TokenBodies}
ManifestResponses ==
    {NetFailure(e) : e \in NetFailures} \cup
    {Response(s, NoHeader, Body("errors")) : s \in {401, 404}} \cup
    {Response(200, NoHeader, b) : b \in ManifestBodies}
BlobResponses ==
    {NetFailure(e) : e \in NetFailures} \cup
    {Response(s, NoHeader, Body("errors")) : s \in {401, 404}} \cup
    {Response(200, NoHeader, b) : b \in BlobBodies}

Apis == [hostname : Hosts, oauth2_token : GitTokens]

\* the user the @authenticated decorator hands to an endpoint
Users == [git_token : GitTokens]
NoUser == [git_token |-> None]

---------------------------------------------------------------------------
(* Requests *)

NoAuth == [scheme |-> "none", user |-> "", secret |-> "", token |-> NoToken]
\* "Basic " + urlsafe_b64encode("oauth2:" + secret)
Basic(secret) == [scheme |-> "Basic", user |-> "oauth2", secret |-> secret, token |-> NoToken]
\* "Bearer " + token ; Bearer(NoToken) is the header value "Bearer None"
Bearer(t) == [scheme |-> "Bearer", user |-> "", secret |-> "", token |-> t]

\* https://{host}/v2/{name}/{what}/{ref}
RegistryUrl(host, im, what) ==
    [host |-> host, name |-> im.name, what |-> what, realm |-> 0]
\* the realm URL of a challenge
RealmUrl(r) == [host |-> "", name |-> "", what |-> "realm", realm |-> r]

\* every requests.get of the class is called without a timeout argument
Request(fn, kind, url, params, accept, auth, resp) ==
    [fn |-> fn, kind |-> kind, url |-> url, params |-> params,
     accept |-> accept, auth |-> auth, timeout |-> None, resp |-> resp]

NoChallenge == [realm |-> 0, params |-> {}]

\* the function the running code is in (get_image_config calls
\* get_image_manifest first and then _get_docker_token itself)
InConfig == pc \in {"gc_probe", "gc_exchange", "gc_blob"}
Fn == IF InConfig THEN "get_image_config" ELSE "get_image_manifest"

---------------------------------------------------------------------------
(* The code's decisions, as operators *)

\* faulty variant : the credential is also stored in the instance it is called on
with_oauth2_token_in_place(h, i, oauth2_token) ==
    Append([h EXCEPT ![i].oauth2_token = oauth2_token],
           [hostname |-> h[i].hostname, oauth2_token |-> oauth2_token])

\* ImageRepoDockerAPI.with_oauth2_token called on instance i of heap h : the
\* heap with the new instance, which is its last element
with_oauth2_token(h, i, oauth2_token) ==
    Append(h, [hostname |-> h[i].hostname, oauth2_token |-> oauth2_token])

\* Image.repo_api
repo_api(im) == [hostname |-> im.hostname, oauth2_token |-> None]

\* Python truthiness of an optional string
Truthy(s) == s # None /\ s # ""

\* faulty variant : the hostnames are not compared
HostnameMismatch_never(self, im) == FALSE

\* get_image_manifest, line 54
HostnameMismatch(self, im) == im.hostname # self.hostname

\* faulty variant : the except clause catches every requests exception
ProbeCatches_any(e) == e \in NetFailures

\* faulty variant : no except clause around the probe
ProbeCatches_none(e) == FALSE

\* _get_docker_token, lines 33-36 : the except clause
ProbeCatches(e) == e = "ConnectionError"

\* faulty variant : the status of the probe response is not looked at
ChallengeReceived_any_status(auth_req) ==
    /\ auth_req.net = "none"
    /\ auth_req.www.present

\* _get_docker_token, lines 37-41 : negation of the early-return condition
ChallengeReceived(auth_req) ==
    /\ auth_req.net = "none"
    /\ auth_req.status = 401
    /\ auth_req.www.present

\* faulty variant : params.pop("realm", None), a missing realm goes unnoticed
RealmMissing_defaulted(www) == FALSE

\* _get_docker_token, lines 43-44 : params.pop("realm") raises KeyError
\* when the header has no realm parameter
RealmMissing(www) == www.realm = 0

\* faulty variant : the Basic header is attached without looking at oauth2_token
ExchangeAuth_always_basic(self) == Basic(self.oauth2_token)

\* _get_docker_token, lines 45-48 : Authorization of the token request
ExchangeAuth(self) ==
    IF Truthy(self.oauth2_token) THEN Basic(self.oauth2_token) ELSE NoAuth

\* faulty variant : a 403 answer is turned into an exception as well
ExchangeRaises_or_forbidden(token_req) ==
    token_req.body.kind = "malformed" \/ token_req.status = 403

\* _get_docker_token, line 50 : token_req.json() raises on a body that is not JSON
ExchangeRaises(token_req) == token_req.body.kind = "malformed"

\* _get_docker_token, line 50 : token_req.json().get("token")
ExchangeToken(token_req) ==
    IF token_req.body.kind = "token" THEN token_req.body.token ELSE NoToken

\* faulty variant : the Authorization header is set whatever the token (as line 89 does)
ManifestAuth_always_bearer(t) == Bearer(t)

\* get_image_manifest, lines 61-63 : Authorization of a manifest request
ManifestAuth(t) == IF t # NoToken THEN Bearer(t) ELSE NoAuth

\* faulty variant : the second request is made whatever the first returned
NeedsOciFallback_always(res) == TRUE

\* get_image_manifest, line 65 : the OCI request is made
NeedsOciFallback(res) == res.status # 200

\* get_image_manifest, lines 68-70 : res.json() is evaluated and raises
ManifestRaises(res) == res.status = 200 /\ res.body.kind = "malformed"

\* faulty variant : the body is returned whatever the status
ManifestValue_any_status(res) ==
    IF res.body.kind = "null" THEN None ELSE res.body.kind

\* get_image_manifest, lines 68-70 : the value returned (None, or the kind of the parsed body)
ManifestValue(res) ==
    IF res.status # 200 THEN None
    ELSE IF res.body.kind = "null" THEN None
    ELSE res.body.kind

\* image_exists, line 74
ImageExistsValue(manifest) == IF manifest # None THEN "True" ELSE "False"

\* get_image_config, lines 79-83 : None is returned before the blob is asked for
ConfigAbsent(manifest) == manifest = None \/ manifest # "manifest"

\* get_image_config, lines 87-90 : Authorization of the blob request
BlobAuth(t) == Bearer(t)

\* get_image_config, lines 92-94 : res.json() is evaluated and raises
BlobRaises(res) == res.status = 200 /\ res.body.kind = "malformed"

\* get_image_config lines 92-94 and image_workdir lines 98-103 : image_workdir
\* returns None (no config, or a null nested config)
WorkdirIsNone(res) ==
    \/ res.status # 200
    \/ res.body.kind \in {"null", "confignull"}

\* image_workdir, lines 101 and 104 : nested_config.get("WorkingDir", "/")
\* with nested_config = config.get("config", {})
ConfiguredWorkingDir(body) ==
    IF body.kind = "workdir" THEN body.workdir ELSE <<"/">>

\* faulty variant : the empty string is not replaced
DefaultedWorkingDir_kept(w) == w

\* image_workdir, lines 105-106
DefaultedWorkingDir(w) == IF w = <<>> THEN <<"/">> ELSE w

\* str.split("/") on a sequence of characters
RECURSIVE Split(_)
Split(s) ==
    IF \A i \in 1..Len(s) : s[i] # "/"
    THEN <<s>>
    ELSE LET i == CHOOSE k \in 1..Len(s) : s[k] = "/" /\ \A j \in 1..(k - 1) : s[j] # "/"
         IN  <<SubSeq(s, 1, i - 1)>> \o Split(SubSeq(s, i + 1, Len(s)))

\* "/".join(parts)
RECURSIVE Join(_)
Join(parts) ==
    IF parts = <<>> THEN <<>>
    ELSE IF Len(parts) = 1 THEN parts[1]
    ELSE parts[1] \o <<"/">> \o Join(Tail(parts))

\* the parts pathlib keeps of a POSIX path: empty and "." segments are dropped
PathParts(s) ==
    LET Kept(x) == x # <<>> /\ x # <<".">> IN SelectSeq(Split(s), Kept)

\* the root pathlib gives a POSIX path: "//" for exactly two leading slashes
PathRoot(s) ==
    IF Len(s) >= 2 /\ s[1] = "/" /\ s[2] = "/" /\ (Len(s) = 2 \/ s[3] # "/") THEN <<"/", "/">>
    ELSE IF Len(s) >= 1 /\ s[1] = "/" THEN <<"/">>
    ELSE <<>>

\* image_workdir, line 107 : str(Path(workdir))
PathStr(s) ==
    IF PathRoot(s) = <<>> /\ PathParts(s) = <<>> THEN <<".">>
    ELSE PathRoot(s) \o Join(PathParts(s))

\* image_workdir, lines 101-107 : the Path returned for a config blob
WorkdirPath(res) == PathStr(DefaultedWorkingDir(ConfiguredWorkingDir(res.body)))

---------------------------------------------------------------------------
(* Image.from_path : the regular expressions and their matching *)

Lower == {"a", "b", "c", "d", "e", "f", "g", "h", "i", "j", "k", "l", "m",
          "n", "o", "p", "q", "r", "s", "t", "u", "v", "w", "x", "y", "z"}
Upper == {"A", "B", "C", "D", "E", "F", "G", "H", "I", "J", "K", "L", "M",
          "N", "O", "P", "Q", "R", "S", "T", "U", "V", "W", "X", "Y", "Z"}
Digits == {"0", "1", "2", "3", "4", "5", "6", "7", "8", "9"}
\* [a-zA-Z0-9]
AlNum == Lower \cup Upper \cup Digits

\* a regular expression is a sequence of tokens:
\*   "^" "$"      the anchors build_re adds
\*   "lit"        one literal character (chars is the singleton of it)
\*   "cls"        [chars]{1,}
\*   "open"       start of the named group, look : its lookbehinds, any of which suffices
\*   "close"      end of the named group, look : its lookaheads, any of which suffices
Tok(t, name, chars, look) == [t |-> t, name |-> name, chars |-> chars, look |-> look]
Lit(c) == <<Tok("lit", "", {c}, {})>>
OneOrMore(chars) == <<Tok("cls", "", chars, {})>>
Group(name, behind, body, ahead) ==
    <<Tok("open", name, {}, behind)>> \o body \o <<Tok("close", name, {}, ahead)>>

\* lines 125-131 : the pieces
re_hostname ==
    Group("hostname", {"^"},
          OneOrMore(AlNum \cup {"_", "-"}) \o Lit(".") \o OneOrMore(AlNum \cup {".", "_", "-", ":"}),
          {"/"})
re_docker_username == Group("username", {"^"}, OneOrMore(AlNum), {"/"})
re_username == Group("username", {"/"}, OneOrMore(AlNum \cup {".", "_", "-"}), {"/"})
\* faulty variant : "/" allowed in a Docker Hub image part, as in image
re_docker_image_with_slash ==
    Group("image", {"/", "^"}, OneOrMore(AlNum \cup {".", "_", "-", "/"}), {":", "@", "$"})

re_docker_image ==
    Group("image", {"/", "^"}, OneOrMore(AlNum \cup {".", "_", "-"}), {":", "@", "$"})
\* faulty variant : no "/" in the image part, as in docker_image
re_image_single_segment ==
    Group("image", {"/", "^"}, OneOrMore(AlNum \cup {".", "_", "-"}), {":", "@", "$"})

re_image ==
    Group("image", {"/", "^"}, OneOrMore(AlNum \cup {".", "_", "-", "/"}), {":", "@", "$"})
re_sha == Group("tag", {"@"}, OneOrMore(AlNum \cup {".", "_", "-", ":"}), {"$"})
\* faulty variant : ":" allowed in a tag, as in sha
re_tag_with_colon == Group("tag", {":"}, OneOrMore(AlNum \cup {".", "_", "-", ":"}), {"$"})

re_tag == Group("tag", {":"}, OneOrMore(AlNum \cup {".", "_", "-"}), {"$"})

RECURSIVE Concat(_)
Concat(parts) == IF parts = <<>> THEN <<>> ELSE Head(parts) \o Concat(Tail(parts))

\* lines 120-122
build_re(parts) == <<Tok("^", "", {}, {})>> \o Concat(parts) \o <<Tok("$", "", {}, {})>>

\* the group names of the expressions, and the value of a key that a dict lacks
Groups == {"hostname", "username", "image", "tag"}
Absent == <<"<absent>">>
NoGroups == [g \in Groups |-> Absent]

DockerIo == <<"r", "e", "g", "i", "s", "t", "r", "y", "-", "1", ".", "d", "o", "c", "k", "e", "r", ".", "i", "o">>
Library == <<"l", "i", "b", "r", "a", "r", "y">>
Latest == <<"l", "a", "t", "e", "s", "t">>

\* the dict of defaults of an entry of regexes
Fill(h, u, t) == [hostname |-> h, username |-> u, image |-> Absent, tag |-> t]

\* lines 134-178
regexes == <<
    [re |-> build_re(<<re_docker_image>>),
     fill |-> Fill(DockerIo, Library, Latest)],
    [re |-> build_re(<<re_docker_username, Lit("/"), re_docker_image>>),
     fill |-> Fill(DockerIo, Absent, Latest)],
    [re |-> build_re(<<re_docker_image, Lit(":"), re_tag>>),
     fill |-> Fill(DockerIo, Library, Absent)],
    [re |-> build_re(<<re_docker_username, Lit("/"), re_docker_image, Lit(":"), re_tag>>),
     fill |-> Fill(DockerIo, Absent, Absent)],
    [re |-> build_re(<<re_docker_image, Lit("@"), re_sha>>),
     fill |-> Fill(DockerIo, Library, Absent)],
    [re |-> build_re(<<re_docker_username, Lit("/"), re_docker_image, Lit("@"), re_sha>>),
     fill |-> Fill(DockerIo, Absent, Absent)],
    [re |-> build_re(<<re_hostname, Lit("/"), re_username, Lit("/"), re_image>>),
     fill |-> Fill(Absent, Absent, Latest)],
    [re |-> build_re(<<re_hostname, Lit("/"), re_username, Lit("/"), re_image, Lit(":"), re_tag>>),
     fill |-> Fill(Absent, Absent, Absent)],
    [re |-> build_re(<<re_hostname, Lit("/"), re_username, Lit("/"), re_image, Lit("@"), re_sha>>),
     fill |-> Fill(Absent, Absent, Absent)] >>

\* "$" (no MULTILINE flag) : at the end of the string, or just before a newline that ends it
AtEnd(s, pos) == pos = Len(s) \/ (pos = Len(s) - 1 /\ s[Len(s)] = "\n")
\* (?<=c) at position pos (pos characters consumed)
Behind(c, s, pos) == IF c = "^" THEN pos = 0 ELSE pos > 0 /\ s[pos] = c
\* (?=c) at position pos
Ahead(c, s, pos) == IF c = "$" THEN AtEnd(s, pos) ELSE pos < Len(s) /\ s[pos + 1] = c

\* the ways tokens k.. of re match s from position pos on, each as the dict
\* of its groups (st : where the open group started, caps : the groups so far)
RECURSIVE MatchFrom(_, _, _, _, _, _)
MatchFrom(re, k, s, pos, st, caps) ==
    IF k > Len(re) THEN {caps}
    ELSE LET tk == re[k]
         IN  CASE tk.t = "^" ->
                    IF pos = 0 THEN MatchFrom(re, k + 1, s, pos, st, caps) ELSE {}
               [] tk.t = "$" ->
                    IF AtEnd(s, pos) THEN MatchFrom(re, k + 1, s, pos, st, caps) ELSE {}
               [] tk.t = "lit" ->
                    IF pos < Len(s) /\ s[pos + 1] \in tk.chars
                    THEN MatchFrom(re, k + 1, s, pos + 1, st, caps) ELSE {}
               [] tk.t = "cls" ->
                    UNION {MatchFrom(re, k + 1, s, e, st, caps) :
                             e \in {e \in (pos + 1)..Len(s) : \A j \in (pos + 1)..e : s[j] \in tk.chars}}
               [] tk.t = "open" ->
                    IF \E c \in tk.look : Behind(c, s, pos)
                    THEN MatchFrom(re, k + 1, s, pos, pos, caps) ELSE {}
               [] tk.t = "close" ->
                    IF \E c \in tk.look : Ahead(c, s, pos)
                    THEN MatchFrom(re, k + 1, s, pos, st,
                                   [caps EXCEPT ![tk.name] = SubSeq(s, st + 1, pos)])
                    ELSE {}

\* regex.match(path) : the groupdicts of the matches (empty : None).  No
\* expression of regexes matches a string in two ways, so the one
\* re's backtracking finds first is the only one.
Match(re, s) == MatchFrom(re, 1, s, 0, 0, NoGroups)

\* faulty variant : the defaults do not override, a missing tag stays empty
match_dict_no_fill(k, s) ==
    LET m == CHOOSE c \in Match(regexes[k].re, s) : TRUE
        fill == regexes[k].fill
        d == [g \in Groups |-> IF m[g] # Absent THEN m[g]
                               ELSE IF g = "tag" THEN <<>> ELSE fill[g]]
    IN  [hostname |-> d["hostname"],
         image |-> d["username"] \o <<"/">> \o d["image"],
         tag |-> d["tag"]]

\* lines 183-189 : groupdict(), update(fill), username lumped into image
match_dict(k, s) ==
    LET m == CHOOSE c \in Match(regexes[k].re, s) : TRUE
        fill == regexes[k].fill
        d == [g \in Groups |-> IF fill[g] # Absent THEN fill[g] ELSE m[g]]
    IN  [hostname |-> d["hostname"],
         image |-> d["username"] \o <<"/">> \o d["image"],
         tag |-> d["tag"]]

\* lines 180-190 : the list matches, in the order of regexes
RECURSIVE MatchesFrom(_, _)
MatchesFrom(k, s) ==
    IF k > Len(regexes) THEN <<>>
    ELSE (IF Match(regexes[k].re, s) # {} THEN <<match_dict(k, s)>> ELSE <<>>)
         \o MatchesFrom(k + 1, s)

NoImage == [hostname |-> <<>>, name |-> <<>>, tag |-> <<>>]
NotParsed == [state |-> "unset", exc |-> "none", image |-> NoImage, candidates |-> <<>>]

\* faulty variant : a path no expression matches is taken as a Docker Hub image name
Outcome_lenient(s, matches) ==
    IF Len(matches) = 1
    THEN [state |-> "returned", exc |-> "none",
          image |-> [hostname |-> matches[1].hostname, name |-> matches[1].image,
                     tag |-> matches[1].tag],
          candidates |-> <<>>]
    ELSE IF Len(matches) > 1
    THEN [state |-> "raised", exc |-> "ImageParseError: too many interpretations",
          image |-> NoImage, candidates |-> matches]
    ELSE [state |-> "returned", exc |-> "none",
          image |-> [hostname |-> DockerIo, name |-> s, tag |-> Latest],
          candidates |-> <<>>]

\* lines 191-198 : the Image returned or the ImageParseError raised (candidates :
\* the matches its message lists)
Outcome(s, matches) ==
    IF Len(matches) = 1
    THEN [state |-> "returned", exc |-> "none",
          image |-> [hostname |-> matches[1].hostname, name |-> matches[1].image,
                     tag |-> matches[1].tag],
          candidates |-> <<>>]
    ELSE IF Len(matches) > 1
    THEN [state |-> "raised", exc |-> "ImageParseError: too many interpretations",
          image |-> NoImage, candidates |-> matches]
    ELSE [state |-> "raised", exc |-> "ImageParseError: Cannot parse the image",
          image |-> NoImage, candidates |-> <<>>]

\* Image.from_path(s) as a value
FromPath(s) == Outcome(s, MatchesFrom(1, s))

\* the string of an Image: hostname/name, the separator, tag.  With ":" it is
\* the string launch_notebook builds next to the Image of a commit
\* (notebooks.py, lines 238-243)
ImageString(im, sep) == im.hostname \o <<"/">> \o im.name \o <<sep>> \o im.tag

\* the image references from_path is given: every string of up to MaxPathLen
\* characters over PathAlphabet (one character for each way the expressions
\* tell characters apart, and the newline "$" is sensitive to), longer
\* references put together from parts, and the examples of the source
PathAlphabet == {"a", "-", ".", ":", "/", "@", "\n"}
ShortPaths == UNION {[1..n -> PathAlphabet] : n \in 0..MaxPathLen}
HostParts == {<<"a", ".", "a">>, <<"a", ".", "a", ":", "5">>, <<"-", ".", ".">>, <<"a">>, <<".", "a">>}
NameParts == {<<"a">>, <<"a", ".", "-">>, <<>>}
ImageParts == {<<"a">>, <<"a", "/", "b">>, <<"a", "/", "/", "b">>, <<"/">>, <<"a", "/">>}
TagParts == {<<>>, <<":">>, <<":", "1">>, <<"@", "s", ":", "1">>, <<":", "1", ":", "2">>, <<":", "1", "\n">>}
ComposedPaths ==
    {h \o <<"/">> \o n \o <<"/">> \o i \o t :
        h \in HostParts, n \in NameParts, i \in ImageParts, t \in TagParts}
ExamplePaths == {
    <<"n", "g", "i", "n", "x">>,
    <<"u", "s", "e", "r", "n", "a", "m", "e", "/", "i", "m", "a", "g", "e">>,
    <<"n", "g", "i", "n", "x", ":", "1", ".", "2", "8">>,
    <<"u", "s", "e", "r", "n", "a", "m", "e", "/", "i", "m", "a", "g", "e", ":", "1", ".", "0", ".", "0">>,
    <<"n", "g", "i", "n", "x", "@", "s", "h", "a", "2", "5", "6", ":", "2", "4", "2", "3", "5", "r", "t", "2", "r", "e", "w", "g", "3", "4", "5", "f", "e", "r", "w", "f">>,
    <<"u", "s", "e", "r", "n", "a", "m", "e", "/", "i", "m", "a", "g", "e", "@", "s", "h", "a", "2", "5", "6", ":", "f", "d", "s", "a", "f", "3", "4", "5", "t", "r", "e", "3", "4", "1", "2", "t", "1", "4", "1", "3", "r">>,
    <<"g", "i", "t", "l", "a", "b", ".", "c", "o", "m", "/", "u", "s", "e", "r", "n", "a", "m", "e", "/", "p", "r", "o", "j", "e", "c", "t">>,
    <<"g", "i", "t", "l", "a", "b", ".", "c", "o", "m", "/", "u", "s", "e", "r", "n", "a", "m", "e", "/", "p", "r", "o", "j", "e", "c", "t", "/", "i", "m", "a", "g", "e", "/", "s", "u", "b", "i", "m", "a", "g", "e">>,
    <<"g", "i", "t", "l", "a", "b", ".", "c", "o", "m", "/", "u", "s", "e", "r", "n", "a", "m", "e", "/", "p", "r", "o", "j", "e", "c", "t", ":", "1", ".", "2", ".", "3">>,
    <<"g", "i", "t", "l", "a", "b", ".", "c", "o", "m", "/", "u", "s", "e", "r", "n", "a", "m", "e", "/", "p", "r", "o", "j", "e", "c", "t", "/", "i", "m", "a", "g", "e", "/", "s", "u", "b", "i", "m", "a", "g", "e", ":", "1", ".", "2", ".", "3">>,
    <<"g", "i", "t", "l", "a", "b", ".", "c", "o", "m", "/", "u", "s", "e", "r", "n", "a", "m", "e", "/", "p", "r", "o", "j", "e", "c", "t", "@", "s", "h", "a", "2", "5", "6", ":", "3", "2", "4", "f", "e", "t", "1", "3", "t", "4">>,
    <<"g", "i", "t", "l", "a", "b", ".", "c", "o", "m", "/", "u", "s", "e", "r", "n", "a", "m", "e", "/", "p", "r", "o", "j", "e", "c", "t", "/", "i", "m", "a", "g", "e", "/", "s", "u", "b", "i", "m", "a", "g", "e", "@", "s", "h", "a", "2", "5", "6", ":", "3", "2", "4", "f", "e", "t", "1", "3", "t", "4">>,
    <<"u", "s", "e", "r", "/", "i", "m", "a", "g", "e", ":", "1", ".", "0", ".", "0">>,
    <<"g", "i", "t", "l", "a", "b", ".", "e", "x", "a", "m", "p", "l", "e", ".", "c", "o", "m", "/", "u", "s", "e", "r", "/", "p", "r", "o", "j", "e", "c", "t", "/", "i", "m", "a", "g", "e", ":", "1", ".", "2", ".", "3">>,
    <<"r", "e", "g", "i", "s", "t", "r", "y", ".", "r", "e", "n", "k", "u", ".", "i", "o", "/", "u", "s", "e", "r", "/", "p", "r", "o", "j", "e", "c", "t", ":", "0", ".", "0", ".", "1">>,
    <<"l", "o", "c", "a", "l", "h", "o", "s", "t", ":", "5", "0", "0", "0", "/", "u", "s", "e", "r", "/", "i", "m", "a", "g", "e">>,
    <<"g", "i", "t", "l", "a", "b", ".", "c", "o", "m", "/", "u", "s", "e", "r", "/", "/", "i", "m", "a", "g", "e">>,
    <<"g", "i", "t", "l", "a", "b", ".", "c", "o", "m", "/", "u", "s", "e", "r", "/", "p", "r", "o", "j", "e", "c", "t", "/">>,
    <<"N", "g", "i", "n", "x", "_", "1", "\n">>,
    <<"u", "s", "e", "r", " ", "n", "a", "m", "e", "/", "i", "m", "a", "g", "e">>,
    <<"n", "g", "i", "n", "x", ":", "1", ".", "2", "8", "@", "s", "h", "a", "2", "5", "6", ":", "a", "b">>}
Paths == ShortPaths \cup ComposedPaths \cup ExamplePaths

---------------------------------------------------------------------------
(* Return and raise *)

\* an exception leaves the call; neither image_exists / image_workdir nor
\* check_docker_image has an except clause, so no response is produced
Raise(e) ==
    /\ pc' = "done"
    /\ exc' = e
    /\ result' = "unset"
    /\ workdir' = <<>>
    /\ http' = 0

\* faulty variant : the endpoint answers 200 whatever image_exists returned
HttpStatus_always_ok(exists) == 200

\* check_docker_image, lines 671-674
HttpStatus(exists) == IF exists = "True" THEN 200 ELSE 404

\* the call returns v (image_workdir returning a Path: v = "Path", w its string)
ReturnPath(v, w) ==
    /\ pc' = "done"
    /\ exc' = "none"
    /\ result' = v
    /\ workdir' = w
    /\ http' = 0

\* the call returns v, which is no Path
Return(v) ==
    /\ pc' = "done"
    /\ exc' = "none"
    /\ result' = v
    /\ workdir' = <<>>
    /\ http' = IF caller = "check_docker_image" THEN HttpStatus(v) ELSE 0

\* faulty variant : get_image_config keeps the token of the manifest request
\* for the blob request instead of calling _get_docker_token again
ManifestReturned_reusing_token(manifest) ==
    IF op = "image_exists"
    THEN Return(ImageExistsValue(manifest)) /\ UNCHANGED <<token, challenge>>
    ELSE IF ConfigAbsent(manifest)
         THEN Return(None) /\ UNCHANGED <<token, challenge>>
         ELSE /\ pc' = "gc_blob"
              /\ UNCHANGED <<token, challenge, result, workdir, exc, http>>

\* get_image_manifest returned manifest to image_exists (line 74) or to
\* get_image_config (lines 78-84)
ManifestReturned(manifest) ==
    IF op = "image_exists"
    THEN Return(ImageExistsValue(manifest)) /\ UNCHANGED <<token, challenge>>
    ELSE IF ConfigAbsent(manifest)
         THEN Return(None) /\ UNCHANGED <<token, challenge>>
         ELSE /\ pc' = "gc_probe"
              /\ token' = NoToken
              /\ challenge' = NoChallenge
              /\ UNCHANGED <<result, workdir, exc, http>>

---------------------------------------------------------------------------
(* Initial state and entry points *)

\* the image built for the commit: Image(config.git.registry, path_with_namespace, commit_sha[:7])
CommitImage == [hostname |-> GitRegistry, name |-> "user/project", tag |-> "abcdef1"]
\* Image.from_path(config.sessions.default_image), for the registries a deployment may name
DefaultImages == {[hostname |-> h, name |-> "renku/renkulab-py", tag |-> "3.10"] : h \in Hosts}
\* the request's image: absent, a reference from_path accepts, or one it rejects
NoRequestedImage == [given |-> FALSE, valid |-> FALSE, ref |-> CommitImage]
RequestedImages ==
    {NoRequestedImage} \cup
    {[given |-> TRUE, valid |-> TRUE, ref |-> im] : im \in Images} \cup
    {[given |-> TRUE, valid |-> FALSE, ref |-> CommitImage]}
\* user.get_renku_project(...) : None, or a project by its visibility
\* attribute (a project fetched without credentials has none)
Projects == {None, "public", "private", "novisibility"}
\* what image_exists / image_workdir return or raise once past the hostname check
ExistsOutcomes == {"True", "False", "ConnectionError", "JSONDecodeError"}
WorkdirOutcomes == {"Path", None, "ConnectionError", "JSONDecodeError"}

NoLaunch ==
    [pc |-> "idle", existing |-> FALSE, requested |-> NoRequestedImage, project |-> None,
     default_image |-> CommitImage, image_repo |-> repo_api(CommitImage),
     parsed_image |-> CommitImage, image_exists_publicaly |-> FALSE,
     image_exists_privately |-> FALSE, using_default_image |-> FALSE,
     is_image_private |-> FALSE, checks |-> <<>>, validated |-> FALSE,
     started |-> FALSE, status |-> 0, exc |-> "none"]

\* the dictionary rpc_server.status returns (its raw 'status' text left out)
Statuses ==
    [clean : BOOLEAN, ahead : 0..MaxAhead, behind : 0..MaxAhead,
     branch : {"main"}, commit : {"abcdef1"}]
\* get_status(...) found no status
NoStatus == [clean |-> TRUE, ahead |-> 0, behind |-> 0, branch |-> None, commit |-> None]

\* str(x).lower() of a Python bool
LowerStr(b) == IF b THEN "true" ELSE "false"

\* lines 448-458 : the hibernation dictionary, as the annotations carry it
\* (the date annotation, read from the clock, is left out)
Hibernation(status) ==
    IF status = NoStatus
    THEN [branch |-> "", commit |-> "", dirty |-> "", synchronized |-> ""]
    ELSE [branch |-> status.branch, commit |-> status.commit,
          dirty |-> LowerStr(~status.clean),
          synchronized |-> LowerStr(status.ahead = 0 /\ status.behind = 0)]
NoAnnotations == [branch |-> None, commit |-> None, dirty |-> None, synchronized |-> None]
HibernationAnnotations == {Hibernation(st) : st \in Statuses \cup {NoStatus}}

\* config.k8s.client.get_server(...) : None, a running server, or a hibernated one
NoServer == [exists |-> FALSE, hibernated |-> FALSE, annotations |-> NoAnnotations]
Servers ==
    {NoServer, [exists |-> TRUE, hibernated |-> FALSE, annotations |-> NoAnnotations]} \cup
    {[exists |-> TRUE, hibernated |-> TRUE, annotations |-> a] : a \in HibernationAnnotations}
\* the request's state: the two values of PatchServerStatusEnum and one that is neither
PatchStates == {"hibernated", "running", "stopped"}

NoPatch ==
    [pc |-> "idle", pvs_enabled |-> FALSE, anonymous |-> FALSE, state |-> "running",
     server0 |-> NoServer, server |-> NoServer, status_queries |-> 0, status |-> NoStatus,
     body |-> [hibernated |-> FALSE, annotations |-> NoAnnotations], patches |-> <<>>,
     code |-> 0, exc |-> "none"]
\* the sidecar before autosave is called; the repository is on the user's
\* branch ("current") and has no autosave branch
NoAutosave ==
    [pc |-> "idle", status |-> NoStatus, ci_commit_sha |-> FALSE, renku_username |-> FALSE,
     lfs_files |-> FALSE, should_commit |-> FALSE, should_push |-> FALSE, ops |-> <<>>,
     branch |-> "current", autosave_branch |-> FALSE, committed |-> FALSE,
     pushed |-> FALSE, shutdown_requests |-> 0, exc |-> "none"]

Init ==
    /\ pc = "idle"
    /\ op = "none"
    /\ caller = "none"
    /\ heap = <<[hostname |-> GitRegistry, oauth2_token |-> None]>>
    /\ this = 1
    /\ image = [hostname |-> GitRegistry, name |-> "user/project", tag |-> "0.0.1"]
    /\ reqs = <<>>
    /\ challenge = NoChallenge
    /\ token = NoToken
    /\ result = "unset"
    /\ workdir = <<>>
    /\ exc = "none"
    /\ http = 0
    /\ path = <<>>
    /\ parsed = NotParsed
    /\ user = NoUser
    /\ launch = NoLaunch
    /\ patch = NoPatch
    /\ sidecar = NoAutosave

\* entry of get_image_manifest, lines 52-59, on behalf of method o called by c
\* on the last instance of heap h
Enter(o, c, h, im) ==
    /\ op' = o
    /\ caller' = c
    /\ heap' = h
    /\ this' = Len(h)
    /\ image' = im
    /\ reqs' = <<>>
    /\ challenge' = NoChallenge
    /\ token' = NoToken
    /\ IF HostnameMismatch(h[Len(h)], im)
       THEN Raise("ImageParseError")
       ELSE pc' = "gm_probe" /\ UNCHANGED <<result, workdir, exc, http>>

\* ImageRepoDockerAPI.image_exists(image) called on an instance self
image_exists(self, im) ==
    /\ pc = "idle"
    /\ Enter("image_exists", "direct", <<self>>, im)
    /\ UNCHANGED <<path, parsed, user, launch, patch, sidecar>>

\* ImageRepoDockerAPI.image_workdir(image) called on an instance self
image_workdir(self, im) ==
    /\ pc = "idle"
    /\ Enter("image_workdir", "direct", <<self>>, im)
    /\ UNCHANGED <<path, parsed, user, launch, patch, sidecar>>

\* check_docker_image, lines 667-671 : parsed_image is the reference
\* Image.from_path returned for image_url, git_token is user.git_token
check_docker_image(parsed_image, git_token) ==
    LET image_repo == IF parsed_image.hostname = GitRegistry /\ Truthy(git_token)
                      THEN with_oauth2_token(<<repo_api(parsed_image)>>, 1, git_token)
                      ELSE <<repo_api(parsed_image)>>
    IN  /\ pc = "idle"
        /\ Enter("image_exists", "check_docker_image", image_repo, parsed_image)
        /\ user' = [git_token |-> git_token]
        /\ UNCHANGED <<path, parsed, launch, patch, sidecar>>

---------------------------------------------------------------------------
(* One action per round trip *)

\* _get_docker_token, lines 32-44 : the unauthenticated probe
get_docker_token_probe ==
    /\ pc \in {"gm_probe", "gc_probe"}
    /\ \E auth_req \in ProbeResponses :
        /\ reqs' = Append(reqs, Request(Fn, "probe", RegistryUrl(api.hostname, image, "manifests"),
                                        {}, "", NoAuth, auth_req))
        /\ IF auth_req.net # "none" /\ ~ProbeCatches(auth_req.net)
           THEN Raise(auth_req.net) /\ UNCHANGED <<token, challenge>>
           ELSE IF ~ChallengeReceived(auth_req)
           THEN \* return None
                /\ token' = NoToken
                /\ pc' = IF InConfig THEN "gc_blob" ELSE "gm_v2"
                /\ UNCHANGED <<challenge, result, workdir, exc, http>>
           ELSE IF RealmMissing(auth_req.www)
           THEN Raise("KeyError") /\ UNCHANGED <<token, challenge>>
           ELSE /\ challenge' = [realm |-> auth_req.www.realm, params |-> auth_req.www.params]
                /\ pc' = IF InConfig THEN "gc_exchange" ELSE "gm_exchange"
                /\ UNCHANGED <<token, result, workdir, exc, http>>
    /\ UNCHANGED <<user, launch, patch, sidecar, path, parsed, op, caller, heap, this, image>>

\* _get_docker_token, lines 45-50 : the token exchange
get_docker_token_exchange ==
    /\ pc \in {"gm_exchange", "gc_exchange"}
    /\ \E token_req \in TokenResponses :
        /\ reqs' = Append(reqs, Request(Fn, "token", RealmUrl(challenge.realm), challenge.params,
                                        "application/json", ExchangeAuth(api), token_req))
        /\ IF token_req.net # "none"
           THEN Raise(token_req.net) /\ UNCHANGED token
           ELSE IF ExchangeRaises(token_req)
           THEN Raise("JSONDecodeError") /\ UNCHANGED token
           ELSE /\ token' = ExchangeToken(token_req)
                /\ pc' = IF InConfig THEN "gc_blob" ELSE "gm_v2"
                /\ UNCHANGED <<result, workdir, exc, http>>
    /\ UNCHANGED <<user, launch, patch, sidecar, path, parsed, op, caller, heap, this, image, challenge>>

\* get_image_manifest, lines 60-65 and 68-70 : the Docker V2 manifest request
get_image_manifest_v2 ==
    /\ pc = "gm_v2"
    /\ \E res \in ManifestResponses :
        /\ reqs' = Append(reqs, Request(Fn, "manifest", RegistryUrl(image.hostname, image, "manifests"),
                                        {}, docker_v2, ManifestAuth(token), res))
        /\ IF res.net # "none"
           THEN Raise(res.net) /\ UNCHANGED <<token, challenge>>
           ELSE IF NeedsOciFallback(res)
           THEN pc' = "gm_oci" /\ UNCHANGED <<token, challenge, result, workdir, exc, http>>
           ELSE IF ManifestRaises(res)
           THEN Raise("JSONDecodeError") /\ UNCHANGED <<token, challenge>>
           ELSE ManifestReturned(ManifestValue(res))
    /\ UNCHANGED <<user, launch, patch, sidecar, path, parsed, op, caller, heap, this, image>>

\* get_image_manifest, lines 66-70 : the OCI V1 manifest request
get_image_manifest_oci ==
    /\ pc = "gm_oci"
    /\ \E res \in ManifestResponses :
        /\ reqs' = Append(reqs, Request(Fn, "manifest", RegistryUrl(image.hostname, image, "manifests"),
                                        {}, oci_v1, ManifestAuth(token), res))
        /\ IF res.net # "none"
           THEN Raise(res.net) /\ UNCHANGED <<token, challenge>>
           ELSE IF ManifestRaises(res)
           THEN Raise("JSONDecodeError") /\ UNCHANGED <<token, challenge>>
           ELSE ManifestReturned(ManifestValue(res))
    /\ UNCHANGED <<user, launch, patch, sidecar, path, parsed, op, caller, heap, this, image>>

\* get_image_config, lines 85-94, and image_workdir, lines 98-107 : the blob request
get_image_config_blob ==
    /\ pc = "gc_blob"
    /\ \E res \in BlobResponses :
        /\ reqs' = Append(reqs, Request(Fn, "blob", RegistryUrl(image.hostname, image, "blobs"),
                                        {}, "application/json", BlobAuth(token), res))
        /\ IF res.net # "none"
           THEN Raise(res.net)
           ELSE IF BlobRaises(res)
           THEN Raise("JSONDecodeError")
           ELSE IF WorkdirIsNone(res)
           THEN Return(None)
           ELSE ReturnPath("Path", WorkdirPath(res))
    /\ UNCHANGED <<user, launch, patch, sidecar, path, parsed, op, caller, heap, this, image, token, challenge>>

Next ==
    \/ \E self \in Apis, im \in Images : image_exists(self, im)
    \/ \E self \in Apis, im \in Images : image_workdir(self, im)
    \/ \E im \in Images, git_token \in GitTokens : check_docker_image(im, git_token)
    \/ get_docker_token_probe
    \/ get_docker_token_exchange
    \/ get_image_manifest_v2
    \/ get_image_manifest_oci
    \/ get_image_config_blob

Spec == Init /\ [][Next]_vars

---------------------------------------------------------------------------
(* launch_notebook (notebooks.py).  The registry calls it makes are taken by
   their outcome: what image_exists and image_workdir return or raise is
   drawn here, how they come to it is the registry client above. *)

\* a registry call of launch_notebook, as logged in launch.checks
Check(fn, repo, im, outcome) == [fn |-> fn, repo |-> repo, image |-> im, outcome |-> outcome]

\* an exception leaves launch_notebook
LaunchRaise(l, e) == [l EXCEPT !.pc = "done", !.exc = e]

\* faulty variant : an existing server is not looked at
ReturnsExisting_never(server) == FALSE

\* lines 208-211 : if server: return ..., 200
ReturnsExisting(server) == server

\* lines 245-247 : getattr(gl_project, "visibility", PUBLIC) != PUBLIC
IsProjectPrivate(project) == project = "private"

\* faulty variant : the credentialed check is made for every host
NeedsPrivateCheck_any_host(publicaly, im, usr) == ~publicaly /\ Truthy(usr.git_token)

\* lines 223-227 : the condition of the credentialed check
NeedsPrivateCheck(publicaly, im, usr) ==
    ~publicaly /\ im.hostname = GitRegistry /\ Truthy(usr.git_token)

\* faulty variant : a missing commit image is not an error
CommitImageMissing_ignored(exists) == FALSE

\* line 253 : if not image_repo.image_exists(parsed_image)
CommitImageMissing(exists) == exists # "True"

\* lines 230-235 : after the existence checks of a requested image
ImageDecided(l, publicaly, privately) ==
    [l EXCEPT !.pc = "options",
              !.image_exists_publicaly = publicaly,
              !.image_exists_privately = privately,
              !.using_default_image = ~privately /\ ~publicaly,
              !.parsed_image = IF ~privately /\ ~publicaly THEN l.default_image ELSE @,
              !.is_image_private = privately]

\* launch_notebook, lines 208-252 : up to the first registry call
launch_notebook(usr, server, project, requested, default_image) ==
    LET l == [NoLaunch EXCEPT !.existing = server, !.requested = requested,
                              !.project = project, !.default_image = default_image]
    IN  /\ launch.pc = "idle"
        /\ user' = usr
        /\ launch' =
            IF ReturnsExisting(server) THEN [l EXCEPT !.pc = "done", !.status = 200]
            ELSE IF requested.given
            THEN IF ~requested.valid THEN LaunchRaise(l, "ImageParseError")
                 ELSE [l EXCEPT !.pc = "public", !.parsed_image = requested.ref,
                                !.image_repo = repo_api(requested.ref)]
            ELSE IF project = None THEN LaunchRaise(l, "AttributeError")
            ELSE [l EXCEPT !.pc = "commit", !.parsed_image = CommitImage,
                           !.is_image_private = IsProjectPrivate(project),
                           !.image_repo =
                               IF IsProjectPrivate(project) /\ Truthy(usr.git_token)
                               THEN with_oauth2_token(<<repo_api(CommitImage)>>, 1, usr.git_token)[2]
                               ELSE repo_api(CommitImage)]
        /\ UNCHANGED <<pc, op, caller, heap, this, image, reqs, challenge, token, result,
                       workdir, exc, http, parserVars, patch, sidecar>>

\* lines 221, 229 and 253 : an image_exists call and what follows it
ln_image_exists ==
    /\ launch.pc \in {"public", "private", "commit"}
    /\ \E outcome \in ExistsOutcomes :
        LET o == IF HostnameMismatch(launch.image_repo, launch.parsed_image)
                 THEN "ImageParseError" ELSE outcome
            l == [launch EXCEPT !.checks =
                    Append(@, Check("image_exists", launch.image_repo, launch.parsed_image, o))]
        IN  launch' =
            IF o \notin {"True", "False"} THEN LaunchRaise(l, o)
            ELSE IF launch.pc = "public"
            THEN IF NeedsPrivateCheck(o = "True", launch.parsed_image, user)
                 THEN [l EXCEPT !.pc = "private", !.image_exists_publicaly = FALSE,
                                !.image_repo =
                                    with_oauth2_token(<<launch.image_repo>>, 1, user.git_token)[2]]
                 ELSE ImageDecided(l, o = "True", FALSE)
            ELSE IF launch.pc = "private"
            THEN ImageDecided(l, FALSE, o = "True")
            ELSE IF CommitImageMissing(o) THEN LaunchRaise(l, "MissingResourceError")
            ELSE [l EXCEPT !.pc = "options"]
    /\ UNCHANGED <<registryVars, parserVars, patch, sidecar>>

\* lines 261-315 : the resource class / server options are validated
ln_server_options ==
    /\ launch.pc = "options"
    /\ \E outcome \in {"ok", "UserInputError"} :
        launch' = IF outcome = "ok" THEN [launch EXCEPT !.pc = "workdir", !.validated = TRUE]
                  ELSE LaunchRaise(launch, outcome)
    /\ UNCHANGED <<registryVars, parserVars, patch, sidecar>>

\* lines 317-319 : image_repo.image_workdir(parsed_image) or Path("/"), gl_project.path
ln_image_workdir ==
    /\ launch.pc = "workdir"
    /\ \E outcome \in WorkdirOutcomes :
        LET o == IF HostnameMismatch(launch.image_repo, launch.parsed_image)
                 THEN "ImageParseError" ELSE outcome
            l == [launch EXCEPT !.checks =
                    Append(@, Check("image_workdir", launch.image_repo, launch.parsed_image, o))]
        IN  launch' =
            IF o \notin {"Path", None} THEN LaunchRaise(l, o)
            ELSE IF launch.project = None THEN LaunchRaise(l, "AttributeError")
            ELSE [l EXCEPT !.pc = "start"]
    /\ UNCHANGED <<registryVars, parserVars, patch, sidecar>>

\* lines 321-380 : cloud storage and user name are checked, the server is started, 201
ln_start ==
    /\ launch.pc = "start"
    /\ \E outcome \in {"started", "UserInputError"} :
        launch' = IF outcome = "started"
                  THEN [launch EXCEPT !.pc = "done", !.started = TRUE, !.status = 201]
                  ELSE LaunchRaise(launch, outcome)
    /\ UNCHANGED <<registryVars, parserVars, patch, sidecar>>

NextLaunch ==
    \/ \E usr \in Users, server \in BOOLEAN, project \in Projects,
          requested \in RequestedImages, default_image \in DefaultImages :
            launch_notebook(usr, server, project, requested, default_image)
    \/ ln_image_exists
    \/ ln_server_options
    \/ ln_image_workdir
    \/ ln_start

SpecLaunch == Init /\ [][NextLaunch]_vars

---------------------------------------------------------------------------
(* patch_server (notebooks.py).  get_status and the cluster client are taken
   by their outcome. *)

\* an exception leaves patch_server
PatchRaise(p, e) == [p EXCEPT !.pc = "done", !.exc = e]

\* faulty variant : the user is looked at before the storage configuration
PatchGuard_anonymous_first(pvs_enabled, anonymous) ==
    IF anonymous THEN "AnonymousUserPatchError"
    ELSE IF ~pvs_enabled THEN "PVDisabledError"
    ELSE "none"

\* lines 433-437 : the two guards, in the order of the code
PatchGuard(pvs_enabled, anonymous) ==
    IF ~pvs_enabled THEN "PVDisabledError"
    ELSE IF anonymous THEN "AnonymousUserPatchError"
    ELSE "none"

\* faulty variant : a hibernated server is hibernated again
AlreadyHibernated_never(server) == FALSE

\* line 443 : server and server["spec"]["jupyterServer"].get("hibernated", False)
AlreadyHibernated(server) == server.exists /\ server.hibernated

\* the patch merged into the server by the cluster
Patched(server, body) ==
    [server EXCEPT !.hibernated = body.hibernated,
                   !.annotations = IF body.annotations = NoAnnotations THEN @
                                   ELSE body.annotations]

\* patch_server, lines 433-446 and 482-496 : up to the status query or the patch call
patch_server(pvs_enabled, anonymous, state, server) ==
    LET p == [NoPatch EXCEPT !.pvs_enabled = pvs_enabled, !.anonymous = anonymous,
                             !.state = state, !.server0 = server, !.server = server]
    IN  /\ patch.pc = "idle"
        /\ patch' =
            IF PatchGuard(pvs_enabled, anonymous) # "none"
            THEN PatchRaise(p, PatchGuard(pvs_enabled, anonymous))
            ELSE IF state = "hibernated"
            THEN IF AlreadyHibernated(server) THEN [p EXCEPT !.pc = "done", !.code = 204]
                 ELSE [p EXCEPT !.pc = "status"]
            ELSE IF state = "running"
            THEN [p EXCEPT !.pc = "patch",
                           !.body = [hibernated |-> FALSE, annotations |-> NoAnnotations]]
            ELSE PatchRaise(p, "InvalidPatchArgumentError")
        /\ UNCHANGED <<registryVars, parserVars, launch, sidecar>>

\* lines 448-477 : get_status and the patch body built from it
ps_get_status ==
    /\ patch.pc = "status"
    /\ \E status \in Statuses \cup {NoStatus} :
        patch' = [patch EXCEPT !.pc = "patch", !.status_queries = @ + 1,
                               !.status = status,
                               !.body = [hibernated |-> TRUE,
                                         annotations |-> Hibernation(status)]]
    /\ UNCHANGED <<registryVars, parserVars, launch, sidecar>>

\* lines 479-481, 492-494 and 498 : config.k8s.client.patch_server, then 204;
\* the cluster applies the patch to a server it has, or the call fails
ps_patch ==
    /\ patch.pc = "patch"
    /\ \E outcome \in {"patched", "IntermittentError", "MissingResourceError"} :
        /\ outcome = "patched" => patch.server.exists
        /\ outcome = "MissingResourceError" => ~patch.server.exists
        /\ patch' =
            LET p == [patch EXCEPT !.patches = Append(@, patch.body)]
            IN  IF outcome = "patched"
                THEN [p EXCEPT !.pc = "done", !.code = 204,
                               !.server = Patched(@, patch.body)]
                ELSE PatchRaise(p, outcome)
    /\ UNCHANGED <<registryVars, parserVars, launch, sidecar>>

NextPatch ==
    \/ \E pvs_enabled \in BOOLEAN, anonymous \in BOOLEAN, state \in PatchStates,
          server \in Servers : patch_server(pvs_enabled, anonymous, state, server)
    \/ ps_get_status
    \/ ps_patch

SpecPatch == Init /\ [][NextPatch]_vars

---------------------------------------------------------------------------
(* autosave (rpc_server.py).  Each GitCLI call is taken by its outcome: it
   returns or it raises. *)

\* faulty variant : a context manager without try / finally, whose exit code
\* is skipped when the body raises
BodyLeft_no_finally(s, e) ==
    IF e = "none" THEN [s EXCEPT !.pc = "shutdown"] ELSE [s EXCEPT !.pc = "done", !.exc = e]

\* lines 76-79 : the with body is left, by return or by an exception, and the
\* finally clause runs
BodyLeft(s, e) == [s EXCEPT !.pc = "shutdown", !.exc = e]

\* a GitCLI call: it is logged, then either it returns and the body goes on
\* to `next` with the repository changed to `done`, or it raises and the body
\* is left
GitStep(name, next, done) ==
    /\ \E raises \in BOOLEAN :
        sidecar' =
            IF raises
            THEN BodyLeft([sidecar EXCEPT !.ops = Append(@, name)], "GitCommandError")
            ELSE [done EXCEPT !.pc = next, !.ops = Append(@, name)]
    /\ UNCHANGED <<registryVars, parserVars, launch, patch>>

\* faulty variant : the commit steps are run whether the repository is dirty or not
AfterCheckout_always_commit(s) == IF s.lfs_files THEN "lfs" ELSE "add"

\* lines 105 and 118 : what follows the checkout of the autosave branch
AfterCheckout(s) ==
    IF s.should_commit
    THEN IF s.lfs_files THEN "lfs" ELSE "add"
    ELSE "push"

\* autosave is called, lines 81-83 : the environment it will read
autosave(ci_commit_sha, renku_username, lfs_files) ==
    /\ sidecar.pc = "idle"
    /\ sidecar' = [NoAutosave EXCEPT !.pc = "status", !.ci_commit_sha = ci_commit_sha,
                                     !.renku_username = renku_username,
                                     !.lfs_files = lfs_files]
    /\ UNCHANGED <<registryVars, parserVars, launch, patch>>

\* lines 84-101 : status, the early return, the environment lookups
as_status ==
    /\ sidecar.pc = "status"
    /\ \/ sidecar' = BodyLeft([sidecar EXCEPT !.ops = Append(@, "status")], "GitCommandError")
       \/ \E st \in Statuses :
            LET s == [sidecar EXCEPT !.ops = Append(@, "status"), !.status = st,
                                     !.should_commit = ~st.clean,
                                     !.should_push = st.ahead > 0]
            IN  sidecar' =
                IF ~(s.should_commit \/ s.should_push) THEN BodyLeft(s, "none")
                ELSE IF ~sidecar.ci_commit_sha \/ ~sidecar.renku_username
                THEN BodyLeft(s, "KeyError")
                ELSE [s EXCEPT !.pc = "checkout_b"]
    /\ UNCHANGED <<registryVars, parserVars, launch, patch>>

\* line 103 : git checkout -b <autosave branch>
as_git_checkout_b ==
    /\ sidecar.pc = "checkout_b"
    /\ GitStep("checkout -b", AfterCheckout(sidecar),
            [sidecar EXCEPT !.branch = "autosave", !.autosave_branch = TRUE])

\* lines 105-119 : large files found, git lfs track
as_git_lfs ==
    /\ sidecar.pc = "lfs"
    /\ GitStep("lfs track", "add", sidecar)

\* line 120 : git add -A
as_git_add ==
    /\ sidecar.pc = "add"
    /\ GitStep("add", "commit", sidecar)

\* lines 121-125 : git commit --no-verify
as_git_commit ==
    /\ sidecar.pc = "commit"
    /\ GitStep("commit", "push", [sidecar EXCEPT !.committed = TRUE])

\* line 127 : git push origin <autosave branch>
as_git_push ==
    /\ sidecar.pc = "push"
    /\ GitStep("push", "reset", [sidecar EXCEPT !.pushed = TRUE])

\* line 129 : git reset --soft <current branch>
as_git_reset ==
    /\ sidecar.pc = "reset"
    /\ GitStep("reset --soft", "checkout", sidecar)

\* line 130 : git checkout <current branch>
as_git_checkout ==
    /\ sidecar.pc = "checkout"
    /\ GitStep("checkout", "branch_D", [sidecar EXCEPT !.branch = "current"])

\* line 131 : git branch -D <autosave branch>, the last statement of the body
as_git_branch_D ==
    /\ sidecar.pc = "branch_D"
    /\ \E raises \in BOOLEAN :
        sidecar' =
            IF raises
            THEN BodyLeft([sidecar EXCEPT !.ops = Append(@, "branch -D")], "GitCommandError")
            ELSE BodyLeft([sidecar EXCEPT !.ops = Append(@, "branch -D"),
                                          !.autosave_branch = FALSE], "none")
    /\ UNCHANGED <<registryVars, parserVars, launch, patch>>

\* line 79 : requests.get(.../shutdown) in the finally clause; an exception
\* of the request replaces the one of the body
as_shutdown ==
    /\ sidecar.pc = "shutdown"
    /\ \E e \in {"none", "ConnectionError"} :
        sidecar' = [sidecar EXCEPT !.pc = "done", !.shutdown_requests = @ + 1,
                                   !.exc = IF e = "none" THEN @ ELSE e]
    /\ UNCHANGED <<registryVars, parserVars, launch, patch>>

NextAutosave ==
    \/ \E ci_commit_sha \in BOOLEAN, renku_username \in BOOLEAN, lfs_files \in BOOLEAN :
            autosave(ci_commit_sha, renku_username, lfs_files)
    \/ as_status
    \/ as_git_checkout_b
    \/ as_git_lfs
    \/ as_git_add
    \/ as_git_commit
    \/ as_git_push
    \/ as_git_reset
    \/ as_git_checkout
    \/ as_git_branch_D
    \/ as_shutdown

SpecAutosave == Init /\ [][NextAutosave]_vars

\* autosave is one sequential call: every statement it reaches returns or
\* raises, so a step that can be taken is taken
SpecAutosaveLive == SpecAutosave /\ WF_vars(NextAutosave)

---------------------------------------------------------------------------
(* Image.from_path on its own *)

InitParse ==
    /\ pc = "idle"
    /\ op = "none"
    /\ caller = "none"
    /\ heap = <<[hostname |-> GitRegistry, oauth2_token |-> None]>>
    /\ this = 1
    /\ image = [hostname |-> GitRegistry, name |-> "user/project", tag |-> "0.0.1"]
    /\ reqs = <<>>
    /\ challenge = NoChallenge
    /\ token = NoToken
    /\ result = "unset"
    /\ workdir = <<>>
    /\ exc = "none"
    /\ http = 0
    /\ path \in Paths
    /\ parsed = NotParsed
    /\ user = NoUser
    /\ launch = NoLaunch
    /\ patch = NoPatch
    /\ sidecar = NoAutosave

\* Image.from_path(path), lines 119-198
from_path ==
    /\ parsed.state = "unset"
    /\ parsed' = FromPath(path)
    /\ UNCHANGED <<registryVars, path, launch, patch, sidecar>>

NextParse == from_path

SpecParse == InitParse /\ [][NextParse]_vars

---------------------------------------------------------------------------
(* Vocabulary of the properties *)

Done == pc = "done"
Sent == 1..Len(reqs)
Of(kind) == {i \in Sent : reqs[i].kind = kind}
\* the request failed at the network level
Failed(i) == reqs[i].resp.net # "none"
\* request i is the last one of the call and the call ended by raising e
EndedBy(i, e) == i = Len(reqs) /\ Done /\ exc = e /\ result = "unset" /\ http = 0
\* launch_notebook, line 317 : image_repo.image_workdir(parsed_image) or Path("/")
WorkDirOrDefault == IF result = "Path" THEN workdir ELSE <<"/">>
\* the code went on after request i as if no token had been obtained: the next
\* request is the manifest request without Authorization (in get_image_manifest)
\* or the blob request (in get_image_config), never a token exchange
ProceedsWithoutToken(i) ==
    /\ i = Len(reqs) => (pc \in {"gm_v2", "gc_blob"} /\ token = NoToken)
    /\ i < Len(reqs) =>
        \/ reqs[i + 1].kind = "manifest" /\ reqs[i + 1].auth = NoAuth
        \/ reqs[i + 1].kind = "blob" /\ reqs[i + 1].auth = Bearer(NoToken)
HasCredential == Truthy(api.oauth2_token)
\* request i timed out.  No request is given a timeout (requests then never
\* raises Timeout): a wait that ends without an answer ends when the
\* connection times out at the socket level, which requests reports as
\* ConnectionError
TimedOut(i) == reqs[i].resp.net = "ConnectionError"

---------------------------------------------------------------------------
(* Properties *)

\* C1 : in an execution of get_image_manifest the manifest endpoint is asked
\* with an Accept header at most twice, first for Docker V2, then for OCI V1
\* and only right after a non-200 answer to the first; the probe and the
\* token exchange of the execution are sent at most once each, and nothing
\* is sent after a request that failed with an exception that leaves the call.
C1_TwoStepNegotiation ==
    LET M == Of("manifest")
        InManifest(kind) == {i \in Of(kind) : reqs[i].fn = "get_image_manifest"}
    IN  /\ Cardinality(M) <= 2
        /\ \A i \in M :
            IF \E j \in M : j < i
            THEN /\ reqs[i].accept = oci_v1
                 /\ reqs[i - 1].kind = "manifest"
                 /\ reqs[i - 1].accept = docker_v2
                 /\ ~Failed(i - 1)
                 /\ reqs[i - 1].resp.status # 200
            ELSE reqs[i].accept = docker_v2
        /\ Cardinality(InManifest("probe")) <= 1
        /\ Cardinality(InManifest("token")) <= 1
        /\ \A i \in Sent : (Failed(i) /\ i < Len(reqs)) => reqs[i].kind = "probe"

C1_Witness ==
    /\ Done /\ op = "image_exists" /\ result = "True"
    /\ Cardinality(Of("manifest")) = 2
    /\ reqs[Len(reqs)].accept = oci_v1
    /\ reqs[Len(reqs) - 1].resp.status = 404

\* C2 : image_exists returns true whenever a manifest request (the primary
\* one, or the OCI fallback after a non-200 primary) returned 200.
C2_ExistsWhenManifest200 ==
    (Done /\ op = "image_exists" /\ \E i \in Of("manifest") : reqs[i].resp.status = 200)
        => (result = "True" /\ exc = "none")

\* C3 : when both manifest requests return 404, image_exists returns false
\* as a value and raises nothing (check_docker_image answers 404).
C3_Both404IsFalse ==
    (/\ Done /\ op = "image_exists"
     /\ Cardinality(Of("manifest")) = 2
     /\ \A i \in Of("manifest") : reqs[i].resp.status = 404)
        => /\ result = "False"
           /\ exc = "none"
           /\ caller = "check_docker_image" => http = 404

C3_Witness ==
    /\ Done /\ op = "image_exists" /\ caller = "check_docker_image"
    /\ Cardinality(Of("manifest")) = 2
    /\ \A i \in Of("manifest") : reqs[i].resp.status = 404
    /\ result = "False"

\* C4 (as claimed) : image_exists never returns false in an execution in
\* which one of its requests failed at the network level.
C4_NetFailureNeverFalse ==
    (Done /\ op = "image_exists" /\ \E i \in Sent : Failed(i)) => result # "False"

\* C4 (amended) : image_exists returns false only if no request failed at the
\* network level other than the probe with a ConnectionError; a failure of
\* the token exchange or of a manifest request, and any other failure of the
\* probe, ends the call with that exception and without a value.
C4_OnlyProbeConnectionErrorConflated ==
    (Done /\ op = "image_exists") =>
        /\ result = "False" =>
            \A i \in Sent : Failed(i) =>
                (reqs[i].kind = "probe" /\ reqs[i].resp.net = "ConnectionError")
        /\ \A i \in Sent :
            (Failed(i) /\ ~(reqs[i].kind = "probe" /\ reqs[i].resp.net = "ConnectionError"))
                => (exc = reqs[i].resp.net /\ result = "unset")

C4_Witness ==
    /\ Done /\ op = "image_exists"
    /\ Len(reqs) = 3
    /\ reqs[1].kind = "probe" /\ reqs[1].resp.net = "ConnectionError"
    /\ reqs[3].kind = "manifest" /\ reqs[3].resp.status = 404
    /\ result = "False"

\* C5 (as claimed) : a network-level failure of a registry request never
\* leaves the check as an exception; the check ends with exists = false,
\* respectively with no configured working directory (the caller's "/").
C5_NetFailureCaught ==
    (Done /\ \E i \in Sent : Failed(i)) =>
        /\ exc = "none"
        /\ op = "image_exists" => result = "False"
        /\ op = "image_workdir" => (result \in {None, "Path"} /\ WorkDirOrDefault = <<"/">>)

\* C5 (amended) : the only network-level failure that is caught is a
\* ConnectionError of the probe, after which the call goes on without a
\* token; every other network-level failure (another failure of the probe,
\* any failure of the token exchange, of a manifest request or of the blob
\* request) is the last request of the call and leaves it as an exception:
\* no value is returned and check_docker_image produces no response.
C5_NetFailurePropagates ==
    \A i \in Sent : Failed(i) =>
        IF reqs[i].kind = "probe" /\ reqs[i].resp.net = "ConnectionError"
        THEN ~EndedBy(i, reqs[i].resp.net) /\ (Done => i < Len(reqs))
        ELSE EndedBy(i, reqs[i].resp.net)

C5_Witness ==
    /\ Done /\ caller = "check_docker_image"
    /\ reqs[Len(reqs)].kind = "manifest"
    /\ reqs[Len(reqs)].resp.net = "ConnectionError"
    /\ exc = "ConnectionError" /\ http = 0

\* C6 (as claimed) : if the probe fails at the network level, token
\* acquisition fails with that error and no request follows the probe.
C6_ProbeFailureIsUnreachable ==
    \A i \in Of("probe") : Failed(i) =>
        (i = Len(reqs) /\ Done /\ exc \in NetFailures \cup {"RegistryUnreachable"})

\* C6 (amended) : if the probe fails with a ConnectionError, token
\* acquisition returns no token: no token exchange is sent and the manifest
\* request follows without an Authorization header (in get_image_config the
\* blob request follows); if the probe fails with any other network-level
\* exception, that exception leaves the call and no request follows.
C6_ProbeConnectionErrorMeansNoToken ==
    \A i \in Of("probe") : Failed(i) =>
        IF reqs[i].resp.net = "ConnectionError"
        THEN ProceedsWithoutToken(i)
        ELSE EndedBy(i, reqs[i].resp.net)

C6_Witness ==
    /\ Len(reqs) >= 2
    /\ reqs[1].kind = "probe" /\ reqs[1].resp.net = "ConnectionError"
    /\ reqs[2].kind = "manifest" /\ reqs[2].auth = NoAuth

C8_TokenOnlyFrom200WithField ==
    \A i \in Of("token") : ~Failed(i) =>
        LET r == reqs[i].resp
            yields == r.status = 200 /\ r.body.kind = "token"
        IN  /\ (i < Len(reqs) /\ reqs[i + 1].auth.scheme = "Bearer"
                    /\ reqs[i + 1].auth.token # NoToken) => yields
            /\ (~yields /\ r.status # 403) => ProceedsWithoutToken(i)

\* C9 (as claimed) : with a credential supplied, a 403 answer to the token
\* exchange ends the check with AuthenticationRejected and no request follows.
C9_ForbiddenExchangeRaised ==
    \A i \in Of("token") :
        (~Failed(i) /\ reqs[i].resp.status = 403 /\ HasCredential)
            => EndedBy(i, "AuthenticationRejected")

\* C9 (amended) : a 403 answer to the token exchange is handled like any
\* other answer, with or without a credential: a JSON body without a token
\* field yields no token and the manifest request follows without an
\* Authorization header (so the check can end with exists = false), a JSON
\* body with a token field yields that token, which the next request
\* carries as Bearer, and a body that is not JSON ends the call with the
\* JSONDecodeError of token_req.json().
C9_ForbiddenExchangeNotSpecial ==
    \A i \in Of("token") :
        (~Failed(i) /\ reqs[i].resp.status = 403) =>
            LET body == reqs[i].resp.body
            IN  /\ body.kind = "errors" => ProceedsWithoutToken(i)
                /\ body.kind = "token" =>
                    /\ i = Len(reqs) => (pc \in {"gm_v2", "gc_blob"} /\ token = body.token)
                    /\ i < Len(reqs) => reqs[i + 1].auth = Bearer(body.token)
                /\ body.kind = "malformed" => EndedBy(i, "JSONDecodeError")

C9_Witness ==
    /\ Done /\ op = "image_exists" /\ HasCredential
    /\ Len(reqs) = 4
    /\ reqs[2].kind = "token" /\ reqs[2].resp.status = 403
    /\ reqs[3].kind = "manifest" /\ reqs[3].auth = NoAuth
    /\ result = "False"

\* C10 : the token exchange is sent to the realm of the challenge of the
\* preceding probe with the challenge's other parameters as query
\* parameters, and carries Basic authorization for user oauth2 with the
\* instance's secret exactly when the instance was given a credential
\* (otherwise no Authorization header).
C10_ExchangeRequest ==
    \A i \in Of("token") :
        /\ i > 1
        /\ reqs[i - 1].kind = "probe"
        /\ reqs[i - 1].resp.www.realm \in Realms
        /\ reqs[i].url = RealmUrl(reqs[i - 1].resp.www.realm)
        /\ reqs[i].params = reqs[i - 1].resp.www.params
        /\ reqs[i].accept = "application/json"
        /\ reqs[i].auth = IF HasCredential THEN Basic(api.oauth2_token) ELSE NoAuth
        /\ reqs[i].auth.scheme = "Basic" <=> HasCredential

C10_Witness ==
    /\ Len(reqs) >= 2
    /\ reqs[2].kind = "token"
    /\ reqs[2].params = {"service", "scope"}
    /\ reqs[2].auth = Basic("glpat-secret")
    /\ caller = "check_docker_image"

\* C11 : the working-directory lookup never raises: when the manifest is
\* absent, null or without a config digest, when a manifest or blob body is
\* not JSON, when the blob request fails or answers non-200, the call
\* returns and the working directory the caller uses is "/".
C11_LastRequestInconclusive ==
    /\ Len(reqs) > 0
    /\ LET r == reqs[Len(reqs)]
       IN  \/ /\ r.kind = "manifest" /\ r.resp.net = "none"
              /\ (r.resp.status # 200 \/ r.resp.body.kind \in {"malformed", "null", "nodigest"})
           \/ /\ r.kind = "blob"
              /\ \/ r.resp.net # "none"
                 \/ r.resp.status # 200
                 \/ r.resp.body.kind \in {"malformed", "null", "confignull"}

C11_WorkdirNeverRaises ==
    (Done /\ op = "image_workdir" /\ C11_LastRequestInconclusive)
        => (exc = "none" /\ WorkDirOrDefault = <<"/">>)

C12_Normal(w) ==
    /\ w # <<>>
    /\ \A k \in 1..Len(w) - 1 : ~(w[k] = "/" /\ w[k + 1] = "/")
    /\ Len(w) > 1 => w[Len(w)] # "/"
    /\ \A k \in 1..Len(Split(w)) : Split(w)[k] # <<".">>

C13_BlobReauthenticates ==
    \A i \in Of("blob") :
        \E m \in Of("manifest") :
            /\ m < i
            /\ \A j \in Of("manifest") : j <= m
            /\ reqs[m].resp.status = 200
            /\ reqs[m + 1].kind = "probe"
            /\ reqs[m + 1].fn = "get_image_config"
            /\ IF ChallengeReceived(reqs[m + 1].resp)
               THEN /\ i = m + 3
                    /\ reqs[m + 2].kind = "token"
                    /\ reqs[m + 2].fn = "get_image_config"
                    /\ reqs[i].auth =
                         Bearer(IF reqs[m + 2].resp.body.kind = "token"
                                THEN reqs[m + 2].resp.body.token ELSE NoToken)
               ELSE /\ i = m + 2
                    /\ reqs[i].auth = Bearer(NoToken)

C13_Witness ==
    /\ Len(reqs) = 6
    /\ reqs[3].kind = "manifest" /\ reqs[3].auth = Bearer(1)
    /\ reqs[5].kind = "token"
    /\ reqs[6].kind = "blob" /\ reqs[6].auth = Bearer(2)

\* C14 : credentials are never escalated: while the instance the call runs
\* on has no credential, no request of the call carries a Basic
\* Authorization header (and a Basic header only ever carries the credential
\* of that instance); no step of a call changes an existing instance; and
\* with_oauth2_token in check_docker_image yields a second instance with the
\* same hostname, the instance repo_api returned keeping no credential.
C14_NoEscalation ==
    [][/\ \A i \in 1..Len(reqs') :
            reqs'[i].auth.scheme = "Basic" =>
                /\ Truthy(heap'[this'].oauth2_token)
                /\ reqs'[i].auth = Basic(heap'[this'].oauth2_token)
       /\ pc # "idle" => (heap' = heap /\ this' = this)
       /\ (pc = "idle" /\ caller' = "check_docker_image") =>
            /\ heap'[1] = repo_api(image')
            /\ \A i \in 1..Len(heap') : heap'[i].hostname = image'.hostname
            /\ Len(heap') = 2 =>
                (this' = 2 /\ Truthy(heap'[2].oauth2_token) /\ image'.hostname = GitRegistry)
      ]_vars

C14_Witness ==
    /\ Done /\ caller = "check_docker_image" /\ result = "True"
    /\ Len(heap) = 2 /\ this = 2
    /\ heap[1].oauth2_token = None
    /\ \E i \in Of("token") : reqs[i].auth = Basic(heap[2].oauth2_token)

\* C15 (as claimed) : if a request of the resolution times out, at the probe,
\* the token exchange, a manifest request or the blob request, the
\* resolution ends as an unreachable-registry error and with no value, in
\* particular never with exists = false.
C15_TimeoutIsUnreachable ==
    (Done /\ \E i \in Sent : TimedOut(i)) =>
        /\ exc \in {"ConnectionError", "RegistryUnreachable"}
        /\ result = "unset"

\* C15 (amended) : no request carries a timeout, so no deadline is enforced
\* by the resolver.  A request that times out at the connection level at
\* the token exchange, a manifest request or the blob request is the last
\* request and leaves the resolution as a ConnectionError with no value;
\* one that times out at a probe (of get_image_manifest or of
\* get_image_config) is taken as "no token": the resolution goes on with the
\* manifest or blob request and ends by what that request answers, exists =
\* false and the default working directory included.
C15_TimeoutOnlyFatalAfterProbe ==
    \A i \in Sent :
        /\ reqs[i].timeout = None
        /\ TimedOut(i) =>
            IF reqs[i].kind = "probe"
            THEN /\ ProceedsWithoutToken(i)
                 /\ Done => /\ i < Len(reqs)
                            /\ exc = "none" => result \in {"True", "False", None, "Path"}
            ELSE /\ EndedBy(i, "ConnectionError")
                 /\ result \notin {"True", "False", None, "Path"}

C15_Witness ==
    /\ Done /\ op = "image_workdir" /\ result = None /\ exc = "none"
    /\ Len(reqs) = 5
    /\ reqs[4].kind = "probe" /\ reqs[4].fn = "get_image_config" /\ TimedOut(4)
    /\ reqs[5].kind = "blob" /\ reqs[5].resp.status = 404

\* C16 : requests are issued one at a time, each after the answer to the
\* previous one.  A completed existence check has sent at least two
\* requests: first the probe, without Authorization, and only one; then a
\* token exchange exactly if the probe was answered 401 with a
\* Www-Authenticate header; then one or two manifest requests and nothing
\* else.  A working-directory lookup that returns a path has sent, as its
\* last request, a blob request answered 200, after a manifest request
\* answered 200.
C16_Challenged(r) == r.net = "none" /\ r.status = 401 /\ r.www.present

C16_RequestOrder ==
    [][/\ pc # "idle" => (reqs' = reqs \/ \E r \in {reqs'[Len(reqs')]} : reqs' = Append(reqs, r))
       /\ (pc' = "done" /\ op' = "image_exists" /\ exc' = "none") =>
            /\ Len(reqs') >= 2
            /\ reqs'[1].kind = "probe" /\ reqs'[1].auth = NoAuth
            /\ \A i \in 2..Len(reqs') : reqs'[i].kind # "probe"
            /\ \A i \in 1..Len(reqs') : reqs'[i].kind = "token" <=> (i = 2 /\ C16_Challenged(reqs'[1].resp))
            /\ \A i \in 1..Len(reqs') : reqs'[i].kind = "manifest" <=> (i > 1 /\ reqs'[i].kind # "token")
            /\ Len(reqs') <= (IF C16_Challenged(reqs'[1].resp) THEN 4 ELSE 3)
       /\ (pc' = "done" /\ op' = "image_workdir" /\ result' = "Path") =>
            /\ reqs'[Len(reqs')].kind = "blob"
            /\ reqs'[Len(reqs')].resp.status = 200
            /\ \E m \in 1..Len(reqs') - 1 :
                /\ reqs'[m].kind = "manifest" /\ reqs'[m].resp.status = 200
                /\ \A j \in 1..m : reqs'[j].kind # "blob"
      ]_vars

C16_Witness ==
    /\ Done /\ op = "image_exists" /\ exc = "none" /\ result = "False"
    /\ Len(reqs) = 4
    /\ reqs[1].kind = "probe" /\ reqs[2].kind = "token"
    /\ reqs[3].kind = "manifest" /\ reqs[4].kind = "manifest"

\* the expressions of regexes that match path
Matching == {k \in 1..Len(regexes) : Match(regexes[k].re, path) # {}}
Parsed == parsed.state # "unset"
\* w is a non-empty word over chars
Word(w, chars) == w # <<>> /\ \A i \in 1..Len(w) : w[i] \in chars
NameChars == AlNum \cup {".", "_", "-"}
Slashes == {i \in 1..Len(path) : path[i] = "/"}
\* the tag or digest that follows position c of path (the end of the image
\* part): none, ":" and a tag, or "@" and a digest
NoTagAfter(c) == c = Len(path)
TagAfter(c) ==
    /\ c < Len(path)
    /\ \/ path[c + 1] = ":" /\ Word(SubSeq(path, c + 2, Len(path)), NameChars)
       \/ path[c + 1] = "@" /\ Word(SubSeq(path, c + 2, Len(path)), NameChars \cup {":"})
GivenOrLatest(c) == IF NoTagAfter(c) THEN Latest ELSE SubSeq(path, c + 2, Len(path))
Returned(h, n, t) ==
    /\ parsed.state = "returned" /\ parsed.exc = "none"
    /\ parsed.image = [hostname |-> h, name |-> n, tag |-> t]

\* C17 : from_path counts the expressions that match the whole path: with
\* none it raises ImageParseError "Cannot parse the image"; with exactly one
\* it returns the Image of that match; with more than one it raises
\* ImageParseError "too many interpretations" listing all of them (at least
\* two); an Image is returned only when exactly one expression matches.
C17_MatchCountDecides ==
    Parsed =>
        /\ Cardinality(Matching) = 0 =>
            /\ parsed.state = "raised"
            /\ parsed.exc = "ImageParseError: Cannot parse the image"
            /\ parsed.image = NoImage
        /\ Cardinality(Matching) = 1 =>
            \A k \in Matching :
                Returned(match_dict(k, path).hostname, match_dict(k, path).image,
                         match_dict(k, path).tag)
        /\ Cardinality(Matching) > 1 =>
            /\ parsed.state = "raised"
            /\ parsed.exc = "ImageParseError: too many interpretations"
            /\ parsed.image = NoImage
            /\ Len(parsed.candidates) = Cardinality(Matching)
            /\ Len(parsed.candidates) >= 2
        /\ parsed.state = "returned" => Cardinality(Matching) = 1

C17_Witness ==
    /\ parsed.state = "raised"
    /\ parsed.exc = "ImageParseError: Cannot parse the image"
    /\ Len(path) > MaxPathLen
    /\ Slashes # {}

\* C18 : a path of a Docker Hub form, <image> or <username>/<image>, alone or
\* followed by :<tag> or @<digest>, is returned with host
\* registry-1.docker.io, repository library/<image> respectively
\* <username>/<image>, and the given tag or digest, "latest" if none is given.
C18_DockerHubForms ==
    Parsed =>
        \A a \in {0} \cup Slashes, c \in 1..Len(path) :
            (/\ a < c
             /\ a > 0 => Word(SubSeq(path, 1, a - 1), AlNum)
             /\ Word(SubSeq(path, a + 1, c), NameChars)
             /\ NoTagAfter(c) \/ TagAfter(c))
            => Returned(DockerIo,
                        (IF a = 0 THEN Library ELSE SubSeq(path, 1, a - 1))
                            \o <<"/">> \o SubSeq(path, a + 1, c),
                        GivenOrLatest(c))

C18_Witness ==
    /\ path = <<"u", "s", "e", "r", "/", "i", "m", "a", "g", "e", ":", "1", ".", "0", ".", "0">>
    /\ Returned(DockerIo, <<"u", "s", "e", "r", "/", "i", "m", "a", "g", "e">>,
                <<"1", ".", "0", ".", "0">>)

\* C19 : a path of the self-hosted form <hostname>/<namespace>/<path>, alone
\* or followed by :<tag> or @<digest>, where <hostname> has a "." after its
\* first label and <path> may have several segments, is returned with the
\* given hostname, repository <namespace>/<path>, and the given tag or
\* digest, "latest" if none is given.
C19_SelfHostedForm ==
    Parsed =>
        \A a \in Slashes, b \in Slashes, c \in 1..Len(path) :
            (/\ a < b /\ b < c
             /\ \E d \in 1..(a - 1) :
                    /\ path[d] = "."
                    /\ Word(SubSeq(path, 1, d - 1), AlNum \cup {"_", "-"})
                    /\ Word(SubSeq(path, d + 1, a - 1), NameChars \cup {":"})
             /\ Word(SubSeq(path, a + 1, b - 1), NameChars)
             /\ Word(SubSeq(path, b + 1, c), NameChars \cup {"/"})
             /\ NoTagAfter(c) \/ TagAfter(c))
            => Returned(SubSeq(path, 1, a - 1), SubSeq(path, a + 1, c), GivenOrLatest(c))

C19_Witness ==
    /\ Len(path) = 43
    /\ Returned(SubSeq(path, 1, 18), SubSeq(path, 20, 37), <<"1", ".", "2", ".", "3">>)
    /\ Cardinality({i \in 20..37 : path[i] = "/"}) = 2

\* C20 : every Image from_path returns has a non-empty hostname, a
\* repository that is a slash-separated path of non-empty segments, and a
\* non-empty value in tag, its one field for the tag or the digest.
C20_ReferenceInvariant ==
    parsed.state = "returned" =>
        /\ parsed.image.hostname # <<>>
        /\ parsed.image.name # <<>>
        /\ \A k \in 1..Len(Split(parsed.image.name)) : Split(parsed.image.name)[k] # <<>>
        /\ parsed.image.tag # <<>>
        /\ \A i \in 1..Len(parsed.image.tag) : parsed.image.tag[i] # "@"

C24_AvailabilityEndpoint ==
    caller = "check_docker_image" =>
        /\ Done =>
            /\ http = 200 <=> (exc = "none" /\ result = "True")
            /\ http = 404 <=> (exc = "none" /\ result = "False")
            /\ http \in {0, 200, 404}
            /\ http = 0 <=> exc # "none"
        /\ op = "image_exists"
        /\ Cardinality({i \in Of("probe") : reqs[i].fn = "get_image_manifest"}) <= 1
        /\ \A i \in Sent : reqs[i].fn = "get_image_manifest" /\ reqs[i].url.host \in {"", image.hostname}
        /\ api.hostname = image.hostname
        /\ api.oauth2_token =
             (IF image.hostname = GitRegistry /\ Truthy(user.git_token)
              THEN user.git_token ELSE None)
        /\ \A i \in Of("token") : reqs[i].auth = ExchangeAuth(api)

C24_Witness ==
    /\ Done /\ caller = "check_docker_image" /\ http = 200 /\ result = "True"
    /\ image.hostname # GitRegistry /\ Truthy(user.git_token) /\ ~HasCredential
    /\ Of("token") # {}

\* C30 : after a probe answered by anything but a 401 with a
\* Www-Authenticate header (another status, a 401 without the header, or a
\* connection error that is caught), the next request is no token exchange;
\* when the probe is that of get_image_manifest, no token exchange is sent in
\* get_image_manifest and every manifest request goes without an
\* Authorization header.
C30_NoChallengeNoAuth ==
    \A i \in Of("probe") :
        LET r == reqs[i].resp
        IN  ~(r.net = "none" /\ r.status = 401 /\ r.www.present) =>
                /\ i < Len(reqs) => reqs[i + 1].kind # "token"
                /\ reqs[i].fn = "get_image_manifest" =>
                    /\ \A j \in Of("token") : reqs[j].fn # "get_image_manifest"
                    /\ \A j \in Of("manifest") : reqs[j].auth = NoAuth

C30_Witness ==
    /\ Done /\ result = "True" /\ HasCredential
    /\ Len(reqs) = 2
    /\ reqs[1].kind = "probe" /\ reqs[1].resp.status = 200 /\ reqs[1].resp.www.present
    /\ reqs[2].kind = "manifest" /\ reqs[2].auth = NoAuth

\* C34 : no path is matched by more than one of the nine expressions, nor by
\* one of them in more than one way: an accepted path has a single
\* interpretation and from_path never raises "too many interpretations"
C34_MutuallyExclusive ==
    Parsed =>
        /\ Cardinality(Matching) <= 1
        /\ \A k \in Matching : Cardinality(Match(regexes[k].re, path)) = 1
        /\ parsed.exc # "ImageParseError: too many interpretations"
        /\ parsed.candidates = <<>>
        /\ parsed.state = "returned" <=> Cardinality(Matching) = 1

C34_Witness ==
    /\ parsed.state = "returned"
    /\ Matching = {8}
    /\ Cardinality(Slashes) >= 3
    /\ parsed.image.tag = <<"1">>

\* C31 : a manifest or blob request carries a Bearer Authorization only with
\* a token that the token exchange just before it returned; when no token
\* was obtained the request has no Authorization header
C31_BearerOnlyWithToken ==
    \A i \in Of("manifest") \cup Of("blob") :
        LET obtained ==
                {ExchangeToken(reqs[j].resp) :
                    j \in {k \in Of("token") : k < i /\ reqs[k].fn = reqs[i].fn /\ ~Failed(k)}}
                \ {NoToken}
        IN  IF obtained = {}
            THEN reqs[i].auth = NoAuth
            ELSE reqs[i].auth \in {Bearer(t) : t \in obtained}

\* C33 : a call with an image whose hostname is not the instance's hostname
\* ends with ImageParseError and has sent no request
C33_HostnameMismatchRaised ==
    (op # "none" /\ image.hostname # api.hostname) =>
        /\ Done
        /\ exc = "ImageParseError"
        /\ result = "unset"
        /\ reqs = <<>>

C33_Witness ==
    /\ op = "image_workdir"
    /\ image.hostname = GitRegistry
    /\ api.hostname # GitRegistry
    /\ exc = "ImageParseError"

---------------------------------------------------------------------------
(* launch_notebook *)

\* the registry calls of one kind that the launch has made
LaunchChecks(fn) == {i \in 1..Len(launch.checks) : launch.checks[i].fn = fn}
\* an existence check made with a credential attached
Credentialed(i) ==
    launch.checks[i].fn = "image_exists" /\ launch.checks[i].repo.oauth2_token # None

\* C22 : when a server of the computed name already exists, launch_notebook
\* answers 200 and makes no registry call, validates nothing and starts
\* no server
C22_ExistingServerReturned ==
    launch.existing =>
        /\ launch.pc = "done"
        /\ launch.status = 200
        /\ launch.exc = "none"
        /\ launch.checks = <<>>
        /\ ~launch.validated
        /\ ~launch.started

C22_Witness ==
    launch.existing /\ launch.pc = "done" /\ launch.requested.given /\ launch.project # None

\* C23 : without a requested image, when the existence check of the commit
\* image answers false the launch ends with MissingResourceError and no
\* server is started; that check is made on the platform registry, with the
\* user's git token attached exactly when the project is not public and the
\* user has one
C23_MissingCommitImage ==
    (~launch.existing /\ ~launch.requested.given /\ launch.checks # <<>>) =>
        LET c == launch.checks[1]
        IN  /\ c.fn = "image_exists"
            /\ c.image = CommitImage
            /\ c.repo.hostname = GitRegistry
            /\ c.repo.oauth2_token =
                   IF launch.project \notin {"public", "novisibility"} /\ Truthy(user.git_token)
                   THEN user.git_token ELSE None
            /\ c.outcome = "False" =>
                   /\ launch.pc = "done"
                   /\ launch.exc = "MissingResourceError"
                   /\ launch.status = 0
                   /\ ~launch.started
                   /\ Len(launch.checks) = 1

C23_Witness ==
    /\ ~launch.requested.given
    /\ launch.project = "private"
    /\ launch.checks # <<>>
    /\ launch.checks[1].outcome = "False"
    /\ launch.checks[1].repo.oauth2_token # None
    /\ launch.exc = "MissingResourceError"

\* C28 : when neither existence check finds the requested image the launch
\* goes on with the default image, using_default_image true and
\* is_image_private false, and no registry host of the requested image makes
\* the fallback end the launch with an error
C28_FallbackNeverFails ==
    (launch.requested.given /\ launch.using_default_image) =>
        /\ launch.parsed_image = launch.default_image
        /\ ~launch.is_image_private
        /\ \A i \in LaunchChecks("image_workdir") :
               launch.checks[i].outcome # "ImageParseError"

\* C29 : with a requested image, a credentialed existence check is the second
\* check, made after the first one answered false without a credential, for
\* an image on the platform registry and with the user's git token;
\* is_image_private holds exactly when that check answered true; the default
\* image is never marked private
C29_PrivateCheckOrder ==
    launch.requested.given =>
        /\ \A i \in 1..Len(launch.checks) :
               Credentialed(i) =>
                   /\ i = 2
                   /\ launch.checks[1].fn = "image_exists"
                   /\ launch.checks[1].repo.oauth2_token = None
                   /\ launch.checks[1].outcome = "False"
                   /\ launch.checks[i].image = launch.requested.ref
                   /\ launch.checks[i].image.hostname = GitRegistry
                   /\ Truthy(user.git_token)
                   /\ launch.checks[i].repo.oauth2_token = user.git_token
        /\ launch.is_image_private <=>
               \E i \in 1..Len(launch.checks) :
                   Credentialed(i) /\ launch.checks[i].outcome = "True"
        /\ ~(launch.using_default_image /\ launch.is_image_private)

C29_Witness ==
    /\ launch.requested.given
    /\ Len(launch.checks) >= 2
    /\ Credentialed(2)
    /\ launch.checks[2].outcome = "True"
    /\ launch.is_image_private
    /\ launch.started

---------------------------------------------------------------------------
(* patch_server *)

\* the call left no trace on the cluster: nothing asked, nothing patched
NothingDone ==
    /\ patch.status_queries = 0
    /\ patch.patches = <<>>
    /\ patch.server = patch.server0

\* the server was found hibernated when the call came in
HibernatedBefore == patch.server0.exists /\ patch.server0.hibernated

\* C25 (as stated) : a PATCH to hibernated on a hibernated server asks for no
\* status, issues no patch, leaves the annotations as they are and answers 204
C25_AlreadyHibernated ==
    (patch.pc # "idle" /\ patch.state = "hibernated" /\ HibernatedBefore) =>
        /\ patch.pc = "done"
        /\ NothingDone
        /\ patch.code = 204

\* C25 (amended) : such a PATCH never asks for a status nor patches; it answers
\* 204 when persistent volumes are enabled and the user is not anonymous, and
\* otherwise ends with the error of the failing guard
C25_AlreadyHibernatedGuarded ==
    (patch.pc # "idle" /\ patch.state = "hibernated" /\ HibernatedBefore) =>
        /\ patch.pc = "done"
        /\ NothingDone
        /\ patch.exc = PatchGuard(patch.pvs_enabled, patch.anonymous)
        /\ patch.code = IF patch.exc = "none" THEN 204 ELSE 0

C25_Witness ==
    /\ patch.pc = "done"
    /\ patch.state = "hibernated"
    /\ HibernatedBefore
    /\ patch.server0.annotations.dirty = "true"
    /\ patch.code = 204

\* C26 : a patch reaches the cluster only with persistent volumes enabled, a
\* user who is not anonymous and a state of hibernated or running; otherwise
\* the call ends with PVDisabledError, AnonymousUserPatchError or
\* InvalidPatchArgumentError, tried in that order, and the server is untouched
C26_PatchGuards ==
    /\ patch.patches # <<>> =>
           /\ patch.pvs_enabled
           /\ ~patch.anonymous
           /\ patch.state \in {"hibernated", "running"}
    /\ patch.pc # "idle" =>
           LET refused ==
                   IF ~patch.pvs_enabled THEN "PVDisabledError"
                   ELSE IF patch.anonymous THEN "AnonymousUserPatchError"
                   ELSE IF patch.state \notin {"hibernated", "running"}
                   THEN "InvalidPatchArgumentError"
                   ELSE "none"
           IN  refused # "none" =>
                   /\ patch.pc = "done"
                   /\ patch.exc = refused
                   /\ patch.code = 0
                   /\ NothingDone

C26_Witness ==
    /\ patch.pc = "done"
    /\ patch.exc = "PVDisabledError"
    /\ patch.anonymous
    /\ patch.state = "stopped"
    /\ patch.server0.exists

---------------------------------------------------------------------------
(* autosave *)

\* C27 : once autosave has been called the shutdown request is eventually
\* sent to the git proxy, whether the body returned early, ran to its end or
\* was left by an exception
C27_ShutdownAlwaysSent ==
    (sidecar.pc # "idle") ~> (sidecar.pc = "done" /\ sidecar.shutdown_requests = 1)

C27_Witness ==
    /\ sidecar.pc = "done"
    /\ sidecar.shutdown_requests = 1
    /\ sidecar.exc = "GitCommandError"
    /\ sidecar.ops[Len(sidecar.ops)] = "push"

\* the git operations autosave has run after reading the status
GitOps == SubSeq(sidecar.ops, 2, Len(sidecar.ops))
\* a is a prefix of b
IsPrefix(a, b) == Len(a) <= Len(b) /\ SubSeq(b, 1, Len(a)) = a
\* autosave has read the status and found the repository dirty / ahead
StatusRead == sidecar.status # NoStatus
Dirty == ~sidecar.status.clean
AheadOfRemote == sidecar.status.ahead > 0
\* the positions of an operation in the log
OpAt(name) == {i \in 1..Len(sidecar.ops) : sidecar.ops[i] = name}

\* C35 : with a clean repository that is not ahead autosave runs no git
\* operation beyond the status; otherwise the operations it runs are, as far
\* as it gets, checkout -b, then for a dirty repository lfs track (if large
\* files were found), add and commit, then push, reset --soft, checkout and
\* branch -D, all of them when no step fails; the push precedes the deletion
C35_GitOperationOrder ==
    LET commit_ops == IF Dirty
                      THEN (IF sidecar.lfs_files THEN <<"lfs track">> ELSE <<>>)
                           \o <<"add", "commit">>
                      ELSE <<>>
        all_ops == <<"checkout -b">> \o commit_ops
                   \o <<"push", "reset --soft", "checkout", "branch -D">>
    IN  /\ sidecar.ops # <<>> => sidecar.ops[1] = "status"
        /\ ~StatusRead => Len(sidecar.ops) <= 1
        /\ (StatusRead /\ ~Dirty /\ ~AheadOfRemote) => sidecar.ops = <<"status">>
        /\ (StatusRead /\ (Dirty \/ AheadOfRemote)) =>
               /\ IsPrefix(GitOps, all_ops)
               /\ (sidecar.pc = "done" /\ sidecar.exc = "none") => GitOps = all_ops
        /\ \A d \in OpAt("branch -D") : \E p \in OpAt("push") : p < d /\ sidecar.pushed

C35_Witness ==
    /\ sidecar.pc = "done"
    /\ sidecar.exc = "none"
    /\ ~Dirty /\ AheadOfRemote
    /\ GitOps = <<"checkout -b", "push", "reset --soft", "checkout", "branch -D">>

\* C36 : when autosave has terminated, with or without an error, the
\* repository is on the branch it was on before the call and has no local
\* autosave branch
C36_RepositoryRestored ==
    sidecar.pc = "done" =>
        /\ sidecar.branch = "current"
        /\ ~sidecar.autosave_branch

=============================================================================
